---- MODULE Spec2Model ----
(***************************************************************************)
(* A model of the worst-case-optimal join of declarative-dataflow:         *)
(* src/src/plan/hector.rs (Binding::intersect, Hector::implement, the      *)
(* generic multiway extend, and the count / propose / validate operators   *)
(* of CollectionExtender).                                                 *)
(*                                                                         *)
(* A collection is a set of updates <<data, time, diff>>, consolidated:    *)
(* at most one update per (data, time), and no update with diff 0.         *)
(* A time of the AltNeu scope is <<round, phase>>, phase 0 = Alt, 1 = Neu. *)
(***************************************************************************)
EXTENDS Integers, Sequences, FiniteSets, TLC

VARIABLES
    \* Binding::intersect applied to two bindings
    selfSymbols, otherSymbols, intersected,
    \* the server: the names of the query map, the transactions applied to the
    \* edges relation, and the Hector query: its registration, the extenders
    \* of its branches, the concatenated branches and its output relation
    queryMap, txLog, status, panicMsg, branches, changes, tuples,
    \* one call of the generic multiway extend: the indexed relation, the
    \* prefixes, the extenders, the order they are supplied in, the result
    relation, requests, extList, extOrder, extStatus, extended,
    \* one count, propose or validate operator (binary_frontier): which of
    \* the three it is; the index: the changes of the indexed relation, the
    \* updates its trace stores, the upper of its last batch; input 2: whether
    \* a batch waits to be drained, and the frontier; input 1: the frontier
    \* and the requests waiting to be drained; the operator's stash, its
    \* trace handle (held or dropped, advance_by and distinguish_since
    \* frontiers); the requests answered, with what was emitted for each
    opKind, idxHistory, idxStored, idxUpper, batchPending, frontier2,
    frontier1, inbox, stash, traceHeld, advanceFrontier, distinguishFrontier,
    answers,
    \* one Filter plan stage: the symbols and tuples of its source relation,
    \* its variables, predicate and constants, and what implement returned
    fltSymbols, fltTuples, fltVariables, fltPredicate, fltConstants,
    fltStatus, fltResult

varsI == <<selfSymbols, otherSymbols, intersected>>
varsH == <<queryMap, txLog, status, panicMsg, branches, changes, tuples>>
varsE == <<relation, requests, extList, extOrder, extStatus, extended>>
varsIdx == <<idxHistory, idxStored, idxUpper, batchPending, frontier2>>
varsIn1 == <<frontier1, inbox>>
varsOp == <<stash, traceHeld, advanceFrontier, distinguishFrontier, answers>>
varsO == <<opKind, varsIdx, varsIn1, varsOp>>
varsF == <<fltSymbols, fltTuples, fltVariables, fltPredicate, fltConstants,
           fltStatus, fltResult>>
vars == <<varsI, varsH, varsE, varsO, varsF>>

----------------------------------------------------------------------------
(* Bounds *)

\* symbols (Var) are 1..NumSyms
NumSyms == 3

\* the values of single-fact transactions are 100 * (1..NumNodes)
NumNodes == 2

\* the number of transactions applied
MaxTx == 2

\* the rounds of the relation a call of extend reads
MaxRound == 2

\* the number of extenders supplied to one extend
MaxExt == 3

\* the number of requests one operator receives
MaxReq == 2

\* the number of workers that run the dataflow
MaxWorkers == 2

\* the number of changes of the relation one operator's index receives
MaxUpdates == 2

Syms == 1..NumSyms
SymbolPairs == Syms \X Syms

----------------------------------------------------------------------------
(* Option<Var>, and the panic of a usage error *)

Some(x) == [tag |-> "Some", var |-> x]
None == [tag |-> "None", var |-> 0]
Panic == [tag |-> "Panic", var |-> 0]
Pending == [tag |-> "Pending", var |-> 0]

----------------------------------------------------------------------------
(* Binding::intersect: self and other are the symbols pairs of two bindings *)

IntersectIdentityLast(self, other) ==
    IF self[1] = other[1] THEN Some(self[1])
    ELSE IF self[2] = other[2] THEN Some(self[2])
    ELSE IF self = other THEN Panic
    ELSE None

\* an intersect that returns the other endpoint of other
IntersectOtherEnd(self, other) ==
    IF self = other THEN Panic
    ELSE IF self[1] = other[1] THEN Some(other[2])
    ELSE IF self[2] = other[2] THEN Some(other[1])
    ELSE None

Intersect(self, other) ==
    IF self = other THEN Panic
    ELSE IF self[1] = other[1] THEN Some(self[1])
    ELSE IF self[2] = other[2] THEN Some(self[2])
    ELSE None

----------------------------------------------------------------------------
(* Times of the AltNeu scope, and collections *)

Alt == 0
Neu == 1

\* AltNeu::alt(time), AltNeu::neu(time)
AltTime(r) == <<r, Alt>>
NeuTime(r) == <<r, Neu>>

\* PartialOrder::less_equal of AltNeu: by round, then Alt before Neu
LessEqual(s, t) ==
    IF s[1] = t[1] THEN s[2] <= t[2] ELSE s[1] < t[1]

RECURSIVE SumDiffs(_)
SumDiffs(S) ==
    IF S = {} THEN 0
    ELSE LET u == CHOOSE x \in S : TRUE
         IN u[3] + SumDiffs(S \ {u})

\* the (data, time) pairs a collection has updates for
Keys(C) == {<<u[1], u[2]>> : u \in C}

DiffOf(C, d, t) == SumDiffs({u \in C : u[1] = d /\ u[2] = t})

\* the accumulated multiplicity of d at time t
Accum(C, d, t) == SumDiffs({u \in C : u[1] = d /\ LessEqual(u[2], t)})

\* concatenate: the updates of both collections, consolidated
Concat(A, B) ==
    {u \in {<<k[1], k[2], DiffOf(A, k[1], k[2]) + DiffOf(B, k[1], k[2])>> :
                k \in Keys(A) \cup Keys(B)} : u[3] # 0}

RECURSIVE ConcatAll(_)
ConcatAll(seq) ==
    IF seq = <<>> THEN {} ELSE Concat(Head(seq), ConcatAll(Tail(seq)))

----------------------------------------------------------------------------
(* Attribute::new: the four views of one binary relation.  A view is named *)
(* <<phase, direction>>; collection is the relation at Alt times.          *)

Forward == 0
Reverse == 1

\* collection.map(|(e,v)| (v,e))
Swap(collection) == {<<(<<u[1][2], u[1][1]>>), u[2], u[3]>> : u \in collection}

\* a delay that leaves every time as it is
DelayIdentity(collection) == collection

\* collection.delay(|time| AltNeu::neu(time.time))
Delay(collection) == {<<u[1], NeuTime(u[2][1]), u[3]>> : u \in collection}

\* the collection indexed by the view: alt_forward, neu_forward, alt_reverse,
\* neu_reverse
AttributeView(collection, view) ==
    LET directed == IF view[2] = Forward THEN collection ELSE Swap(collection)
    IN IF view[1] = Alt THEN directed ELSE Delay(directed)

Views == {Alt, Neu} \X {Forward, Reverse}

----------------------------------------------------------------------------
(* CollectionIndex::index: the three traces of an indexed collection of    *)
(* ((k, v), time, diff) updates, read at a time.                           *)

\* count_trace, collection.map(|(k,_v)| k).arrange_by_self(): the updates of
\* key k, summed at times less_equal to t
CountSum(index, k, t) ==
    SumDiffs({u \in index : u[1][1] = k /\ LessEqual(u[2], t)})

\* cursor.get_key() == Some(key) on count_trace: the consolidated trace
\* holds an update of key k
CountHasKey(index, k) ==
    \E t \in {u[2] : u \in index} :
        SumDiffs({u \in index : u[1][1] = k /\ u[2] = t}) # 0

\* propose_trace, collection.arrange_by_key(): the values stored under k
ProposeVals(index, k) == {u[1][2] : u \in {x \in index : x[1][1] = k}}

\* validate_trace, collection.arrange_by_self(): (k, v) is a key of it
ValidateHasKey(index, k, v) == \E u \in index : u[1] = <<k, v>>

\* the three traces as arrangements: a function from the keys of the
\* arrangement to the consolidated (val, time, diff) updates under the key
Consolidated(updates) ==
    {w \in {<<k[1], k[2], DiffOf(updates, k[1], k[2])>> : k \in Keys(updates)} :
        w[3] # 0}

\* a count trace that holds one update per (key, time), of diff 1
CountTraceOnes(collection) ==
    [k \in {u[1][1] : u \in collection} |->
        {<<(<<>>), u[2], 1>> : u \in {x \in collection : x[1][1] = k}}]

\* collection.map(|(k,_v)| k).arrange_by_self()
CountTrace(collection) ==
    [k \in {u[1][1] : u \in collection} |->
        Consolidated({<<(<<>>), t, SumDiffs({x \in collection :
                                                x[1][1] = k /\ x[2] = t})>> :
                         t \in {u[2] : u \in collection}})]

\* collection.arrange_by_key()
ProposeTrace(collection) ==
    [k \in {u[1][1] : u \in collection} |->
        Consolidated({<<u[1][2], u[2], u[3]>> :
                         u \in {x \in collection : x[1][1] = k}})]

\* collection.arrange_by_self()
ValidateTrace(collection) ==
    [kv \in {u[1] : u \in collection} |->
        Consolidated({<<(<<>>), u[2], u[3]>> :
                         u \in {x \in collection : x[1] = kv}})]

\* the accumulated multiplicity of val under key at time t in an arrangement
TraceAccum(arrangement, key, val, t) ==
    IF key \in DOMAIN arrangement THEN Accum(arrangement[key], val, t) ELSE 0

----------------------------------------------------------------------------
(* CollectionExtender: an extender is [view, sel]; sel is the position of  *)
(* the prefix that key_selector returns (extend_using).                    *)

\* the width of usize and the shift of the first running count (1 << 31),
\* scaled down: what matters is that every count of a bounded relation is
\* below the first running count, which is below every wrapped negative one
UsizeBits == 16
SentinelShift == 8

UsizeModulus == 2 ^ UsizeBits
FirstCount == 2 ^ SentinelShift

\* count as usize
AsUsize(n) == n % UsizeModulus

KeyOf(ext, prefix) == prefix[ext.sel]

\* count: counts holds ((prefix, old_count, old_index), time, diff)
CountOp(counts, ext, index, collection) ==
    LET trace == AttributeView(collection, ext.view)
        answer(u) ==
            LET key == KeyOf(ext, u[1][1])
                count == AsUsize(CountSum(trace, key, u[2]))
            IN IF count < u[1][2]
               THEN <<(<<u[1][1], count, index>>), u[2], u[3]>>
               ELSE u
    IN {answer(u) : u \in
            {x \in counts :
                /\ CountHasKey(trace, KeyOf(ext, x[1][1]))
                /\ AsUsize(CountSum(trace, KeyOf(ext, x[1][1]), x[2])) > 0}}

\* propose: prefixes holds (prefix, time, diff)
ProposeOp(prefixes, ext, collection) ==
    LET trace == AttributeView(collection, ext.view)
    IN UNION {
         {<<(<<u[1], v>>), u[2], u[3]>> :
             v \in {w \in ProposeVals(trace, KeyOf(ext, u[1])) :
                      Accum(trace, <<KeyOf(ext, u[1]), w>>, u[2]) > 0}}
         : u \in prefixes}

\* a validate that keeps every candidate whose count is not zero
ValidateNonZero(extensions, ext, collection) ==
    LET trace == AttributeView(collection, ext.view)
    IN {u \in extensions :
          /\ ValidateHasKey(trace, KeyOf(ext, u[1][1]), u[1][2])
          /\ Accum(trace, <<KeyOf(ext, u[1][1]), u[1][2]>>, u[2]) # 0}

\* validate: extensions holds ((prefix, value), time, diff)
ValidateOp(extensions, ext, collection) ==
    LET trace == AttributeView(collection, ext.view)
    IN {u \in extensions :
          /\ ValidateHasKey(trace, KeyOf(ext, u[1][1]), u[1][2])
          /\ Accum(trace, <<KeyOf(ext, u[1][1]), u[1][2]>>, u[2]) > 0}

----------------------------------------------------------------------------
(* ProposeExtensionMethod::extend.  Indices of extenders are 0-based as in *)
(* the source; extenders[index] is the sequence element index + 1.         *)

\* for (index, extender) in extenders.iter_mut().enumerate()
\*     { counts = extender.count(&counts, index) }
RECURSIVE CountFold(_, _, _, _)
CountFold(counts, extenders, index, collection) ==
    IF index >= Len(extenders) THEN counts
    ELSE CountFold(CountOp(counts, extenders[index + 1], index, collection),
                   extenders, index + 1, collection)

\* validation against the extenders after the proposing one only
RECURSIVE ValidateLaterOnly(_, _, _, _, _)
ValidateLaterOnly(extensions, extenders, index, other, collection) ==
    IF other >= Len(extenders) THEN extensions
    ELSE IF other <= index
    THEN ValidateLaterOnly(extensions, extenders, index, other + 1, collection)
    ELSE ValidateLaterOnly(
            ValidateOp(extensions, extenders[other + 1], collection),
            extenders, index, other + 1, collection)

\* for other in (0..extenders.len()).filter(|&x| x != index)
\*     { extensions = extenders[other].validate(&extensions) }
RECURSIVE ValidateOthers(_, _, _, _, _)
ValidateOthers(extensions, extenders, index, other, collection) ==
    IF other >= Len(extenders) THEN extensions
    ELSE IF other = index
    THEN ValidateOthers(extensions, extenders, index, other + 1, collection)
    ELSE ValidateOthers(
            ValidateOp(extensions, extenders[other + 1], collection),
            extenders, index, other + 1, collection)

\* counts.inner.partition(..): the nominations of extender index
Nominations(counts, index) ==
    {<<u[1][1], u[2], u[3]>> : u \in {x \in counts : x[1][3] = index}}

\* counts.inner.partition(parts, ..) routes an update to output x[1][3]:
\* sessions[part as usize] is out of bounds when there is no such output
PartitionPanics(counts, parts) == \E x \in counts : x[1][3] >= parts

\* the partition operator of the dataflow extend builds panics on the
\* prefixes
ExtendPanics(prefixes, extenders, collection) ==
    /\ Len(extenders) # 1
    /\ PartitionPanics(
          CountFold({<<(<<u[1], FirstCount, 0>>), u[2], u[3]>> : u \in prefixes},
                    extenders, 0, collection),
          Len(extenders))

Extend(prefixes, extenders, collection) ==
    IF Len(extenders) = 1
    THEN ProposeOp(prefixes, extenders[1], collection)
    ELSE LET first == {<<(<<u[1], FirstCount, 0>>), u[2], u[3]>> : u \in prefixes}
             counts == CountFold(first, extenders, 0, collection)
             results ==
                [i \in 1..Len(extenders) |->
                    ValidateOthers(
                        ProposeOp(Nominations(counts, i - 1), extenders[i],
                                  collection),
                        extenders, i - 1, 0, collection)]
         IN ConcatAll(results)

----------------------------------------------------------------------------
(* Hector::implement: the delta-query assembly *)

\* let (a, b, c) = (1, 2, 3); let bindings = vec![(a,b), (b,c), (a,c)]
HectorBindings == <<(<<1, 2>>), (<<2, 3>>), (<<1, 3>>)>>

\* let name = "edges"
HectorName == "edges"

NotInQueryMap == "not in query map"
SelfIntersect == "Attempt to intersect an attribute with itself"
NotBound == "Requested variable not bound by Attribute"

\* bindings.iter().take(idx-1), as 0-based positions
Preceeding(bindings, idx) ==
    IF idx > 0 THEN [k \in 1..(idx - 1) |-> k - 1] ELSE <<>>

\* bindings.iter().skip(idx), as 0-based positions
Succeeding(bindings, idx) ==
    IF idx < Len(bindings)
    THEN [k \in 1..(Len(bindings) - idx) |-> idx + k - 1]
    ELSE <<>>

\* the body of one loop iteration: the extender pushed for binding `other`
\* against delta_rel, reading the index of the given phase
PushFor(other, delta_rel, phase) ==
    LET join_var == Intersect(other, delta_rel)
    IN IF join_var = Panic THEN [panic |-> SelfIntersect, pushed |-> <<>>]
       ELSE IF join_var = None THEN [panic |-> "", pushed |-> <<>>]
       ELSE IF join_var.var = other[1]
       THEN [panic |-> "",
             pushed |-> <<[view |-> <<phase, Forward>>, sel |-> 1]>>]
       ELSE IF join_var.var = other[2]
       THEN [panic |-> "",
             pushed |-> <<[view |-> <<phase, Reverse>>, sel |-> 2]>>]
       ELSE [panic |-> NotBound, pushed |-> <<>>]

\* one of the two loops of a branch, from position k of `others` on
RECURSIVE PushAll(_, _, _, _, _, _)
PushAll(bindings, others, k, delta_rel, phase, extenders) ==
    IF k > Len(others) THEN [panic |-> "", extenders |-> extenders]
    ELSE LET step == PushFor(bindings[others[k] + 1], delta_rel, phase)
         IN IF step.panic # ""
            THEN [panic |-> step.panic, extenders |-> extenders]
            ELSE PushAll(bindings, others, k + 1, delta_rel, phase,
                         extenders \o step.pushed)

\* the closure of bindings.iter().enumerate().map(..): the extenders of the
\* branch driven by binding idx
BranchExtenders(bindings, idx) ==
    LET delta_rel == bindings[idx + 1]
        before == PushAll(bindings, Preceeding(bindings, idx), 1, delta_rel,
                          Alt, <<>>)
    IN IF before.panic # "" THEN before
       ELSE PushAll(bindings, Succeeding(bindings, idx), 1, delta_rel, Neu,
                    before.extenders)

\* the branches in the order concatenate draws them from the iterator; the
\* first panic ends the assembly
RECURSIVE Assemble(_, _, _)
Assemble(bindings, idx, done) ==
    IF idx >= Len(bindings) THEN [panic |-> "", branches |-> done]
    ELSE LET branch == BranchExtenders(bindings, idx)
         IN IF branch.panic # ""
            THEN [panic |-> branch.panic, branches |-> done]
            ELSE Assemble(bindings, idx + 1,
                          Append(done, branch.extenders))

\* Hector::implement up to the construction of the dataflow
Implement(names) ==
    IF HectorName \notin names
    THEN [panic |-> NotInQueryMap, branches |-> <<>>]
    ELSE Assemble(HectorBindings, 0, <<>>)

----------------------------------------------------------------------------
(* The dataflow Hector::implement builds: every branch extends the edges   *)
(* collection; the branches are concatenated, and the result is distinct   *)
(* and leaves the scope.                                                   *)

\* leave: the time <<round, phase>> becomes the round
Leave(C) ==
    LET keys == {<<u[1], u[2][1]>> : u \in C}
        diff(k) == SumDiffs({u \in C : u[1] = k[1] /\ u[2][1] = k[2]})
    IN {u \in {<<k[1], k[2], diff(k)>> : k \in keys} : u[3] # 0}

\* the accumulated multiplicity at a round, of a collection that has left
AccumAt(C, d, r) == SumDiffs({u \in C : u[1] = d /\ u[2] <= r})

Positive(n) == IF n > 0 THEN 1 ELSE 0

DistinctIdentity(C) == C

\* distinct: accumulates to 1 where C accumulates to more than 0, else to 0
Distinct(C) ==
    LET keys == {<<u[1], u[2]>> : u \in C}
        diff(k) == Positive(AccumAt(C, k[1], k[2]))
                    - Positive(AccumAt(C, k[1], k[2] - 1))
    IN {u \in {<<k[1], k[2], diff(k)>> : k \in keys} : u[3] # 0}

\* nested.concatenate(changes): changes[idx] = edges.extend(extenders of idx)
Changes(built, edges) ==
    ConcatAll([i \in 1..Len(built) |-> Extend(edges, built[i], edges)])

\* tuples: joined.distinct().leave()
HectorTuples(built, edges) == Distinct(Leave(Changes(built, edges)))

----------------------------------------------------------------------------
(* The variables of the parts a specification does not exercise *)

IdleI ==
    /\ selfSymbols = <<1, 1>>
    /\ otherSymbols = <<1, 1>>
    /\ intersected = Pending

IdleH ==
    /\ queryMap = {}
    /\ txLog = <<>>
    /\ status = "unregistered"
    /\ panicMsg = ""
    /\ branches = <<>>
    /\ changes = {}
    /\ tuples = {}

IdleE ==
    /\ relation = {}
    /\ requests = {}
    /\ extList = <<>>
    /\ extOrder = <<>>
    /\ extStatus = "none"
    /\ extended = {}

IdleO ==
    /\ opKind = "count"
    /\ idxHistory = {}
    /\ idxStored = {}
    /\ idxUpper = {}
    /\ batchPending = FALSE
    /\ frontier2 = {}
    /\ frontier1 = {}
    /\ inbox = {}
    /\ stash = {}
    /\ traceHeld = FALSE
    /\ advanceFrontier = {}
    /\ distinguishFrontier = {}
    /\ answers = {}

IdleF ==
    /\ fltSymbols = <<>>
    /\ fltTuples = {}
    /\ fltVariables = <<>>
    /\ fltPredicate = "EQ"
    /\ fltConstants = <<>>
    /\ fltStatus = "none"
    /\ fltResult = {}

----------------------------------------------------------------------------
(* SpecIntersect: intersect applied to any two bindings *)

InitIntersect ==
    /\ selfSymbols \in SymbolPairs
    /\ otherSymbols \in SymbolPairs
    /\ intersected = Pending
    /\ IdleH
    /\ IdleE
    /\ IdleO
    /\ IdleF

CallIntersect ==
    /\ intersected = Pending
    /\ intersected' = Intersect(selfSymbols, otherSymbols)
    /\ UNCHANGED <<selfSymbols, otherSymbols, varsH, varsE, varsO, varsF>>

NextIntersect == CallIntersect

SpecIntersect == InitIntersect /\ [][NextIntersect]_vars

\* the symbols two pairs have in common
Shared(p, q) == {p[1], p[2]} \cap {q[1], q[2]}

\* C6: whenever the two bindings share exactly one endpoint, intersect
\* returns that shared symbol, whatever position it has in each pair.
C6_IntersectSharedAnyPosition ==
    (intersected # Pending /\ selfSymbols # otherSymbols
        /\ Cardinality(Shared(selfSymbols, otherSymbols)) = 1)
    => \E s \in Shared(selfSymbols, otherSymbols) : intersected = Some(s)

\* C7: intersect signals the usage error exactly when the two symbol pairs
\* are identical, returns None when the pairs have no symbol in common, and
\* any symbol it returns is an endpoint of both bindings.
C7_IntersectErrorAndNone ==
    intersected # Pending =>
        /\ (intersected = Panic <=> selfSymbols = otherSymbols)
        /\ (Shared(selfSymbols, otherSymbols) = {} => intersected = None)
        /\ (intersected.tag = "Some"
                => intersected.var \in Shared(selfSymbols, otherSymbols))

C7_Witness ==
    /\ intersected = Panic
    /\ selfSymbols = otherSymbols

\* C29: whenever intersect returns a symbol for a preceding or succeeding
\* binding, the symbol is that binding's own first or second endpoint, so
\* the loop body pushes a forward or a reverse extender and never fails
\* with "Requested variable not bound by Attribute".
C29_NotBoundUnreachable ==
    /\ intersected.tag = "Some" =>
          intersected.var \in {selfSymbols[1], selfSymbols[2]}
    /\ intersected # Pending =>
          \A phase \in {Alt, Neu} :
              /\ PushFor(selfSymbols, otherSymbols, phase).panic # NotBound
              /\ intersected.tag = "Some" =>
                    Len(PushFor(selfSymbols, otherSymbols, phase).pushed) = 1

\* intersect returned the second endpoint of the binding it was called on,
\* and the loop body pushed the reverse extender
C29_Witness ==
    /\ intersected = Some(selfSymbols[2])
    /\ selfSymbols[1] # selfSymbols[2]
    /\ PushFor(selfSymbols, otherSymbols, Neu).pushed
          = <<[view |-> <<Neu, Reverse>>, sel |-> 2]>>

----------------------------------------------------------------------------
(* Spec: the server with the Hector query.  Transactions are applied to    *)
(* the edges relation, one round each; the query is registered once.       *)

Values == {100 * i : i \in 1..NumNodes}

\* the transaction of the test hector (tests/query_test.rs)
TestTx == {<<100, 200, 1>>, <<200, 300, 1>>, <<100, 300, 1>>,
           <<100, 400, 1>>, <<400, 500, 1>>, <<500, 100, 1>>}

\* the edges relation as a collection at Alt times: transaction r is round r
Edges(log) ==
    UNION {{<<(<<f[1], f[2]>>), AltTime(r), f[3]>> : f \in log[r]} :
              r \in 1..Len(log)}

\* the facts of the relation after the first r transactions
EdgesAt(log, r) ==
    {<<f[1], f[2]>> : f \in UNION {log[k] : k \in 1..r}}

Multiplicity(log, e, v) == Accum(Edges(log), <<e, v>>, AltTime(Len(log)))

InitHector ==
    /\ queryMap \in {{"edge"}, {"edges"}}
    /\ txLog = <<>>
    /\ status = "unregistered"
    /\ panicMsg = ""
    /\ branches = <<>>
    /\ changes = {}
    /\ tuples = {}
    /\ IdleI
    /\ IdleE
    /\ IdleO
    /\ IdleF

\* server.transact and worker.step_while: the relation changes and a running
\* dataflow brings its output up to date
Transact(tx) ==
    /\ status \in {"unregistered", "running"}
    /\ Len(txLog) < MaxTx
    /\ \A f \in tx : f[3] < 0 => Multiplicity(txLog, f[1], f[2]) > 0
    /\ txLog' = Append(txLog, tx)
    /\ changes' = IF status = "running"
                  THEN Changes(branches, Edges(txLog')) ELSE changes
    /\ tuples' = IF status = "running"
                 THEN HectorTuples(branches, Edges(txLog')) ELSE tuples
    /\ UNCHANGED <<queryMap, status, panicMsg, branches, varsI, varsE, varsO, varsF>>

\* server.register of the Hector plan: Hector::implement
Register ==
    /\ status = "unregistered"
    /\ LET built == Implement(queryMap)
       IN IF built.panic # ""
          THEN /\ status' = "panicked"
               /\ panicMsg' = built.panic
               /\ UNCHANGED <<branches, changes, tuples>>
          ELSE /\ status' = "running"
               /\ panicMsg' = ""
               /\ branches' = built.branches
               /\ changes' = Changes(built.branches, Edges(txLog))
               /\ tuples' = HectorTuples(built.branches, Edges(txLog))
    /\ UNCHANGED <<queryMap, txLog, varsI, varsE, varsO, varsF>>

TxChoices ==
    {{<<e, v, d>>} : e \in Values, v \in Values, d \in {1, -1}}

Next ==
    \/ \E tx \in TxChoices : Transact(tx)
    \/ txLog = <<>> /\ Transact(TestTx)
    \/ Register

Spec == InitHector /\ [][Next]_vars

----------------------------------------------------------------------------
(* The query recomputed from scratch *)

\* the assignments of the symbols that satisfy every binding over the
\* facts E, as tuples <<a, b, c>>
ScratchJoin(E) ==
    LET vals == {f[1] : f \in E} \cup {f[2] : f \in E}
    IN {m \in vals \X vals \X vals :
          \A i \in 1..Len(HectorBindings) :
             <<m[HectorBindings[i][1]], m[HectorBindings[i][2]]>> \in E}

\* the facts present after the first r transactions
Present(log, r) ==
    {f \in EdgesAt(log, r) :
        Accum(Edges(log), f, AltTime(r)) > 0}

\* a result ((e, v), x) as the tuple <<e, v, x>>
Flat(d) == <<d[1][1], d[1][2], d[2]>>

\* the output relation at round r
TuplesAt(r) ==
    {Flat(d) : d \in {u[1] : u \in {x \in tuples : AccumAt(tuples, x[1], r) > 0}}}

\* C1: once the query is registered over its relation, at every round the maintained output
\* equals the join recomputed over the relation accumulated so far.
C1_DifferentialCorrectness ==
    (HectorName \in queryMap /\ status # "unregistered") =>
        \A r \in 1..Len(txLog) : TuplesAt(r) = ScratchJoin(Present(txLog, r))

\* C2: a round that inserts one fact completing exactly one match makes the
\* concatenated branches produce that match with multiplicity exactly one.
C2_NoDoubleCounting ==
    (HectorName \in queryMap /\ status # "unregistered") =>
        \A r \in 1..Len(txLog) :
            LET new == ScratchJoin(Present(txLog, r))
                          \ ScratchJoin(Present(txLog, r - 1))
            IN (Cardinality(txLog[r]) = 1 /\ Cardinality(new) = 1) =>
                  \A m \in new :
                     SumDiffs({u \in Leave(changes) :
                                 Flat(u[1]) = m /\ u[2] = r}) = 1

\* C3: when a fact is inserted in one round and retracted in the next, the
\* retraction removes from the output exactly the matches the fact is part
\* of, and the output is again what it was before the insertion.
C3_RetractionSymmetry ==
    (HectorName \in queryMap /\ status # "unregistered") =>
        \A r \in 1..(Len(txLog) - 1) :
            \A e \in Values, v \in Values :
                (/\ txLog[r] = {<<e, v, 1>>}
                 /\ txLog[r + 1] = {<<e, v, -1>>}
                 /\ <<e, v>> \notin Present(txLog, r - 1)) =>
                    /\ TuplesAt(r) \ TuplesAt(r + 1)
                         = ScratchJoin(Present(txLog, r))
                              \ ScratchJoin(Present(txLog, r - 1))
                    /\ TuplesAt(r + 1) = TuplesAt(r - 1)

\* the node sets of the result tuples at round r
TrianglesAt(r) == {{m[1], m[2], m[3]} : m \in TuplesAt(r)}

\* C4: with the relation "edge" and the six edges of the test, the query
\* registers and runs without a fatal error and its result holds the
\* triangles over {100,200,300} and {100,400,500} and no other.
C4_TriangleScenario ==
    (queryMap = {"edge"} /\ status # "unregistered") =>
        /\ status = "running"
        /\ (txLog = <<TestTx>> =>
                TrianglesAt(1) = {{100, 200, 300}, {100, 400, 500}})

\* C8: assembling the delta query of the binding list never raises the
\* self-intersection usage error.
C8_NoSelfIntersection ==
    panicMsg # SelfIntersect

\* the positions the two loops of branch idx visit, each with the phase of
\* the index its loop reads
Visits(bindings, idx) ==
    [k \in 1..Len(Preceeding(bindings, idx)) |->
        <<Preceeding(bindings, idx)[k], Alt>>]
    \o [k \in 1..Len(Succeeding(bindings, idx)) |->
        <<Succeeding(bindings, idx)[k], Neu>>]

\* the number of extenders the loops of branch idx push for binding j
ExtendersFrom(bindings, idx, j) ==
    Cardinality({k \in 1..Len(Visits(bindings, idx)) :
        /\ Visits(bindings, idx)[k][1] = j
        /\ Len(PushFor(bindings[j + 1], bindings[idx + 1],
                       Visits(bindings, idx)[k][2]).pushed) = 1})

\* C14: once the query is registered every branch i has its extender list,
\* and for every other binding j that shares a symbol with binding i the
\* loops of branch i push exactly one extender for j, the binding just
\* before i included.
C14_BranchCoverage ==
    (HectorName \in queryMap /\ status # "unregistered") =>
        /\ Len(branches) = Len(HectorBindings)
        /\ \A i, j \in 0..(Len(HectorBindings) - 1) :
              (j # i /\ Shared(HectorBindings[i + 1],
                               HectorBindings[j + 1]) # {})
                  => ExtendersFrom(HectorBindings, i, j) = 1

----------------------------------------------------------------------------
(* SpecRunning: the dataflow that Hector::implement builds, running, for   *)
(* any assembled branches: each branch has its list of extenders, of the   *)
(* kinds the assembly pushes.                                              *)

\* the extenders the assembly pushes: alt_forward and neu_forward keyed by
\* the entity of the prefix, alt_reverse and neu_reverse by its value
PushedKinds ==
    {[view |-> <<ph, Forward>>, sel |-> 1] : ph \in {Alt, Neu}}
        \cup {[view |-> <<ph, Reverse>>, sel |-> 2] : ph \in {Alt, Neu}}

\* the number of branches of the running dataflow
NumBranches == 2

InitRunning ==
    /\ queryMap = {HectorName}
    /\ txLog = <<>>
    /\ status = "running"
    /\ panicMsg = ""
    /\ branches \in [1..NumBranches -> {<<k>> : k \in PushedKinds}]
    /\ changes = {}
    /\ tuples = {}
    /\ IdleI
    /\ IdleE
    /\ IdleO
    /\ IdleF

NextRunning ==
    \/ \E tx \in TxChoices : Transact(tx)
    \/ txLog = <<>> /\ Transact(TestTx)

SpecRunning == InitRunning /\ [][NextRunning]_vars

\* the results the branches or the output mention
ResultData == {u[1] : u \in changes} \cup {u[1] : u \in tuples}

\* C9: at every round the accumulated multiplicity of every result tuple of
\* the output relation is 0 or 1.
C9_OutputDistinct ==
    \A d \in ResultData : \A r \in 0..Len(txLog) :
        AccumAt(tuples, d, r) \in {0, 1}

\* a result the concatenated branches hold more than once, held once
C9_Witness ==
    \E d \in ResultData : \E r \in 1..Len(txLog) :
        /\ AccumAt(Leave(changes), d, r) > 1
        /\ AccumAt(tuples, d, r) = 1

----------------------------------------------------------------------------
(* SpecExtend: one call of the generic multiway extend, on any indexed     *)
(* relation, any prefix and any list of extenders, supplied in any order.  *)

\* the histories of the relation: one single-fact transaction per round
Logs == UNION {[1..n -> TxChoices] : n \in 0..MaxRound}

\* the times of a request: the rounds of the relation, in either phase
RequestTimes == (1..MaxRound) \X {Alt, Neu}

\* extenders[order[1]], extenders[order[2]], ..
Permuted(extenders, order) ==
    [i \in 1..Len(extenders) |-> extenders[order[i]]]

InitExtend ==
    /\ relation \in {Edges(log) : log \in Logs}
    /\ requests \in {{<<p, t, 1>>} : p \in Values \X Values, t \in RequestTimes}
    /\ extList \in UNION {[1..n -> PushedKinds] : n \in 0..MaxExt}
    /\ extOrder = <<>>
    /\ extStatus = "none"
    /\ extended = {}
    /\ IdleI
    /\ IdleH
    /\ IdleO
    /\ IdleF

\* prefixes.extend(&mut extenders[..]) with the extenders in the given
\* order: the call builds the dataflow and returns its output collection;
\* no number of extenders makes it fail
BuildExtend(order) ==
    /\ extStatus = "none"
    /\ extOrder' = order
    /\ extStatus' = "built"
    /\ UNCHANGED <<relation, requests, extList, extended, varsI, varsH, varsO, varsF>>

\* the worker steps: the prefixes go through the dataflow that was built
RunExtend ==
    /\ extStatus = "built"
    /\ IF ExtendPanics(requests, Permuted(extList, extOrder), relation)
       THEN extStatus' = "panicked" /\ extended' = {}
       ELSE /\ extStatus' = "ran"
            /\ extended' = Extend(requests, Permuted(extList, extOrder),
                                  relation)
    /\ UNCHANGED <<relation, requests, extList, extOrder, varsI, varsH, varsO, varsF>>

NextExtend ==
    \/ \E order \in Permutations(1..Len(extList)) : BuildExtend(order)
    \/ RunExtend

SpecExtend == InitExtend /\ [][NextExtend]_vars

\* the running (count, index) of every prefix after count is folded over
\* the extenders
FoldedCounts(extenders) ==
    CountFold({<<(<<u[1], FirstCount, 0>>), u[2], u[3]>> : u \in requests},
              extenders, 0, relation)

\* C5: the result of extend is the same for every order the extenders are
\* supplied in.
C5_PartitionIndependence ==
    extStatus = "ran" => extended = Extend(requests, extList, relation)

\* a call with the extenders reordered that yields results, where a prefix
\* is nominated to another extender than in the original order
C5_Witness ==
    /\ extStatus = "ran"
    /\ \E i \in 1..Len(extList) : extOrder[i] # i
    /\ extended # {}
    /\ \E u \in FoldedCounts(extList) :
         \E w \in FoldedCounts(Permuted(extList, extOrder)) :
            /\ u[1][1] = w[1][1]
            /\ extList[u[1][3] + 1] # Permuted(extList, extOrder)[w[1][3] + 1]

\* C12: extend called with no extender is rejected when it is called: no
\* dataflow is built of it, to yield an empty result or to fail once a
\* prefix arrives.
C12_ZeroExtendersRejected ==
    extList = <<>> => extStatus \in {"none", "rejected"}

\* the changes of a view that a request at time t sees
Seen(view, t) == {u \in view : LessEqual(u[2], t)}

\* C16: the Neu view of an attribute holds the changes of its Alt view, each
\* moved from (round, Alt) to (round, Neu); so a request at (r, Alt) sees in
\* the Alt view exactly the changes of rounds up to r, and in the Neu view
\* exactly the changes of rounds before r.
C16_AltNeuVisibility ==
    extStatus = "ran" =>
        \A dir \in {Forward, Reverse} :
            LET alt == AttributeView(relation, <<Alt, dir>>)
                neu == AttributeView(relation, <<Neu, dir>>)
            IN /\ \A u \in alt : u[2][2] = Alt
               /\ neu = {<<u[1], <<u[2][1], Neu>>, u[3]>> : u \in alt}
               /\ \A q \in requests :
                     q[2][2] = Alt =>
                        /\ Seen(alt, q[2]) = {u \in alt : u[2][1] <= q[2][1]}
                        /\ Seen(neu, q[2]) =
                             {<<u[1], <<u[2][1], Neu>>, u[3]>> :
                                 u \in {x \in alt : x[2][1] < q[2][1]}}

\* an extend that ran for a request at (r, Alt) on a relation with a change
\* in round r, which the Alt view shows to the request and the Neu view does
\* not, and with an extender on each of the two views
C16_Witness ==
    /\ extStatus = "ran"
    /\ \E q \in requests :
          /\ q[2][2] = Alt
          /\ \E u \in relation : u[2] = q[2]
          /\ Seen(AttributeView(relation, <<Alt, Forward>>), q[2])
                # Seen(AttributeView(relation, <<Alt, Forward>>),
                       <<q[2][1], Neu>>)
             \/ Seen(AttributeView(relation, <<Neu, Forward>>), q[2])
                # Seen(AttributeView(relation, <<Neu, Forward>>),
                       <<q[2][1], Neu>>)
    /\ \E i, j \in 1..Len(extList) :
          extList[i].view[1] = Alt /\ extList[j].view[1] = Neu

\* extender ext holds value v for the key of prefix p, with a positive
\* accumulated multiplicity at time t
Holds(ext, p, v, t) ==
    Accum(AttributeView(relation, ext.view), <<KeyOf(ext, p), v>>, t) > 0

\* no pair of the relation accumulates to a negative multiplicity
NonNegative(C) ==
    \A u \in C : \A w \in C : Accum(C, u[1], w[2]) >= 0

\* the result of extend as C17 states it
ExtendResult ==
    /\ extended =
          {<<(<<q[1], v>>), q[2], q[3]>> :
              q \in requests,
              v \in {w \in Values : \A q2 \in requests :
                        \A i \in 1..Len(extList) :
                            Holds(extList[i], q2[1], w, q2[2])}}
    /\ Len(extList) = 1 =>
          extended = ProposeOp(requests, extList[1], relation)

\* on a relation without negative multiplicities extend returns the result
\* C17 states
ExtendResultWhenNonNegative ==
    (extStatus = "ran" /\ NonNegative(relation)) => ExtendResult

\* C17: extend returns, for the prefix p at time t with multiplicity d, the
\* row (p, v) at t with multiplicity d for exactly the values v that every
\* supplied extender holds for the key of p with positive accumulated
\* multiplicity at t; with one extender this is the output of its propose.
C17_ExtendResult ==
    extStatus = "ran" => ExtendResult

\* the accumulated count extender ext has for prefix p at time t
ExtCount(ext, p, t) ==
    CountSum(AttributeView(relation, ext.view), KeyOf(ext, p), t)

\* the selection of the cheapest extender as C18 states it, for the
\* extenders in the order they were supplied
CheapestSelected ==
    LET extenders == Permuted(extList, extOrder)
        counts == FoldedCounts(extenders)
        count(i, u) == ExtCount(extenders[i], u[1][1], u[2])
    IN /\ \A u \in counts :
             /\ \A i \in 1..Len(extenders) : u[1][2] <= count(i, u)
             /\ u[1][3] + 1 \in 1..Len(extenders)
             /\ count(u[1][3] + 1, u) = u[1][2]
             /\ \A i \in 1..u[1][3] : count(i, u) > u[1][2]
       /\ \A u \in counts :
             Cardinality({i \in 0..(Len(extenders) - 1) :
                 <<u[1][1], u[2], u[3]>> \in Nominations(counts, i)}) = 1

\* on a relation without negative multiplicities the selection is the one
\* C18 states
CheapestSelectedWhenNonNegative ==
    (extStatus = "ran" /\ Len(extList) >= 2 /\ NonNegative(relation))
        => CheapestSelected

\* C18: after count is folded over all extenders every surviving prefix
\* carries the least count over all extenders and the smallest index of an
\* extender with that count, and is nominated to exactly one partition.
C18_CheapestExtender ==
    (extStatus = "ran" /\ Len(extList) >= 2) => CheapestSelected

\* the counts extender ext reports for the request q, asked as the first
\* extender of a fold: none when it drops the prefix
ReportedCounts(ext, q) ==
    {u[1][2] : u \in CountOp({<<(<<q[1], FirstCount, 0>>), q[2], q[3]>>},
                              ext, 0, relation)}

\* the number of extensions the propose of ext emits for the request q
NumProposed(ext, q) == Cardinality(ProposeOp({q}, ext, relation))

\* the count of every supplied extender is the number of extensions it
\* proposes
CountIsNumProposed ==
    \A i \in 1..Len(extList) :
        \A q \in requests :
            /\ \A c \in ReportedCounts(extList[i], q) :
                  c = NumProposed(extList[i], q)
            /\ ReportedCounts(extList[i], q) = {}
                  => NumProposed(extList[i], q) = 0

\* on a relation where every pair has multiplicity 0 or 1 the count is the
\* number of extensions proposed
CountIsNumProposedOnSets ==
    (extStatus = "ran"
        /\ \A u \in relation : \A w \in relation :
              Accum(relation, u[1], w[2]) \in {0, 1})
        => CountIsNumProposed

\* C19: the count an extender reports for a prefix at time t is the number
\* of extensions its propose emits for that prefix at t, whatever the
\* multiplicities of the relation.
C19_CountIsNumProposed ==
    extStatus = "ran" => CountIsNumProposed

\* the rows the propose of ext emits for the request q
ProposedRows(ext, q) == ProposeOp({q}, ext, relation)

\* the sum of the entries of ext's trace for the key of q and the value v at
\* times dominated by the time of q
TraceSum(ext, q, v) ==
    Accum(AttributeView(relation, ext.view), <<KeyOf(ext, q[1]), v>>, q[2])

\* propose emits one row per value that exists under the key of the prefix
\* at the time of the request, at that time
ProposeRowsExist ==
    extStatus = "ran" =>
        \A i \in 1..Len(extList) : \A q \in requests :
            {<<u[1], u[2]>> : u \in ProposedRows(extList[i], q)}
                = {<<(<<q[1], v>>), q[2]>> :
                      v \in {w \in Values : TraceSum(extList[i], q, w) > 0}}

\* every row propose emits carries the multiplicity of its request
ProposeCarriesRequestDiff ==
    extStatus = "ran" =>
        \A i \in 1..Len(extList) : \A q \in requests :
            \A u \in ProposedRows(extList[i], q) : u[3] = q[3]

\* C20: propose emits, for a request (prefix, t, d), one row per value that
\* exists under the key of the prefix at t, and the multiplicity of the row
\* is given by the sum of the trace entries of that key and value at times
\* dominated by t: d times that sum.
C20_ProposeMultiplicity ==
    extStatus = "ran" =>
        \A i \in 1..Len(extList) : \A q \in requests :
            ProposedRows(extList[i], q)
                = {<<(<<q[1], v>>), q[2], q[3] * TraceSum(extList[i], q, v)>> :
                      v \in {w \in Values : TraceSum(extList[i], q, w) > 0}}

\* the candidate extensions of the requests: every value, with the time and
\* the multiplicity of the request
Candidates == {<<(<<q[1], v>>), q[2], q[3]>> : q \in requests, v \in Values}

\* C21: validate gives exactly the candidates whose (key, value) pair
\* accumulates to a positive multiplicity in the extender's trace at the
\* candidate's time, with time and multiplicity unchanged, and gives nothing
\* that was not among the candidates.
C21_ValidateExact ==
    extStatus = "ran" =>
        \A i \in 1..Len(extList) : \A E \in SUBSET Candidates :
            /\ ValidateOp(E, extList[i], relation) \subseteq E
            /\ \A u \in E :
                  u \in ValidateOp(E, extList[i], relation)
                      <=> Holds(extList[i], u[1][1], u[1][2], u[2])

\* extend ran with two extenders or more and validate kept one candidate
\* and dropped another
C21_Witness ==
    /\ extStatus = "ran"
    /\ Len(extList) >= 2
    /\ \E i \in 1..Len(extList) :
          /\ ValidateOp(Candidates, extList[i], relation) # {}
          /\ ValidateOp(Candidates, extList[i], relation) # Candidates

\* the keys and values to look up: those of the collection and the nodes
LookupValues(collection) ==
    Values \cup {u[1][1] : u \in collection} \cup {u[1][2] : u \in collection}

\* the three traces of the index of a collection agree at time t
TracesAgree(collection, t) ==
    LET counts == CountTrace(collection)
        propose == ProposeTrace(collection)
        validate == ValidateTrace(collection)
        vals == LookupValues(collection)
    IN \A k \in vals :
          /\ \A v \in vals :
                TraceAccum(validate, <<k, v>>, <<>>, t)
                    = TraceAccum(propose, k, v, t)
          /\ TraceAccum(counts, k, <<>>, t)
                = SumDiffs({<<v, t, TraceAccum(propose, k, v, t)>> :
                               v \in vals})

\* C26: at every time, for every key and value, the validate trace of an
\* index accumulates for (key, value) what its propose trace accumulates for
\* the value under the key, and its count trace accumulates for the key the
\* sum of these over the values; so for each of the four indexes of the
\* attribute, after every transaction.
C26_TracesConsistent ==
    \A view \in Views : \A t \in RequestTimes :
        TracesAgree(AttributeView(Edges(txLog), view), t)

\* the relation has changed twice and holds a key with two values and a
\* retraction
C26_Witness ==
    /\ Len(txLog) = MaxTx
    /\ \E u, w \in Edges(txLog) : u[1][1] = w[1][1] /\ u[1][2] # w[1][2]
    /\ \E u \in Edges(txLog) : u[3] < 0

----------------------------------------------------------------------------
(* Several workers: Exchange routes an update to the worker its hash       *)
(* selects, and an arrangement keeps on each worker the updates whose key  *)
(* hashes to it.  The hash is a function of the hashed value alone.        *)

\* key.hashed().as_u64() for a key of count_trace and propose_trace
HashedKey(k) == k \div 100

\* (key, value).hashed().as_u64() for a key of validate_trace
HashedPair(k, v) == 3 * (k \div 100) + (v \div 100)

Workers(n) == 0..(n - 1)

\* the (key, value) pair of an update of the collection in the view
ViewPair(u, view) ==
    IF view[2] = Forward THEN u[1] ELSE <<u[1][2], u[1][1]>>

\* the updates of the collection that worker w of n holds in count_trace and
\* in propose_trace of the view: those whose key hashes to w
KeyShare(collection, view, w, n) ==
    {u \in collection : HashedKey(ViewPair(u, view)[1]) % n = w}

\* the updates that worker w of n holds in validate_trace of the view
PairShare(collection, view, w, n) ==
    {u \in collection :
        HashedPair(ViewPair(u, view)[1], ViewPair(u, view)[2]) % n = w}

\* the exchange of count: logic1(&(update.0).0).hashed()
CountRoute(ext, u, n) == HashedKey(KeyOf(ext, u[1][1])) % n

\* the exchange of propose: logic1(&update.0).hashed()
ProposeRoute(ext, u, n) == HashedKey(KeyOf(ext, u[1])) % n

\* an exchange of validate by the key alone
ValidateRouteByKey(ext, u, n) == HashedKey(KeyOf(ext, u[1][1])) % n

\* the exchange of validate:
\* (logic1(&(update.0).0).clone(), ((update.0).1).clone()).hashed()
ValidateRoute(ext, u, n) == HashedPair(KeyOf(ext, u[1][1]), u[1][2]) % n

\* what worker w of n gives for the requests exchanged to it
WorkerCount(counts, ext, index, w, n) ==
    CountOp({u \in counts : CountRoute(ext, u, n) = w}, ext, index,
            KeyShare(relation, ext.view, w, n))

WorkerPropose(prefixes, ext, w, n) ==
    ProposeOp({u \in prefixes : ProposeRoute(ext, u, n) = w}, ext,
              KeyShare(relation, ext.view, w, n))

WorkerValidate(extensions, ext, w, n) ==
    ValidateOp({u \in extensions : ValidateRoute(ext, u, n) = w}, ext,
               PairShare(relation, ext.view, w, n))

\* the requests of count for the requests of extend
CountRequests == {<<(<<q[1], FirstCount, 0>>), q[2], q[3]>> : q \in requests}

\* with n workers the outputs of the workers together are the output of one
\* worker holding the whole index
SameAsOneWorker(ext, n) ==
    /\ UNION {WorkerCount(CountRequests, ext, 0, w, n) : w \in Workers(n)}
          = CountOp(CountRequests, ext, 0, relation)
    /\ UNION {WorkerPropose(requests, ext, w, n) : w \in Workers(n)}
          = ProposeOp(requests, ext, relation)
    /\ UNION {WorkerValidate(Candidates, ext, w, n) : w \in Workers(n)}
          = ValidateOp(Candidates, ext, relation)

\* C27: every count and propose request is exchanged to the worker that the
\* hash of its key selects and every validate request to the worker that
\* the hash of its (key, value) pair selects, which is the worker that holds
\* that key in its share of the trace; so the outputs of the workers
\* together are the same for any number of workers.
C27_RoutingAgrees ==
    extStatus = "ran" =>
        \A n \in 1..MaxWorkers : \A i \in 1..Len(extList) :
            SameAsOneWorker(extList[i], n)

\* with the largest number of workers, two different workers each validate
\* a candidate, and a worker other than the first proposes
C27_Witness ==
    /\ extStatus = "ran"
    /\ \E i \in 1..Len(extList) : \E w \in Workers(MaxWorkers) \ {0} :
          /\ WorkerValidate(Candidates, extList[i], 0, MaxWorkers) # {}
          /\ WorkerValidate(Candidates, extList[i], w, MaxWorkers) # {}
          /\ WorkerPropose(requests, extList[i], w, MaxWorkers) # {}

----------------------------------------------------------------------------
(* SpecOp: one count, propose or validate operator.  Input 1 carries the   *)
(* requests, input 2 the batches of the index's arrangement; the operator  *)
(* reads the index through its trace handle.                               *)

\* the times of requests and of changes of the index: one per round
OpTimes == {AltTime(r) : r \in 1..MaxRound}
MinTime == AltTime(1)

\* a frontier is the set of its elements: empty once the input is closed
Frontiers == {{}} \cup {{t} : t \in OpTimes}

\* frontier.less_equal(time)
FrontierLessEqual(F, t) == \E f \in F : LessEqual(f, t)

\* frontier G is ahead of frontier F
Beyond(F, G) == F # G /\ \A g \in G : FrontierLessEqual(F, g)

\* the extender the operator belongs to, and the index it was given by
\* extend (count only)
OpExt == [view |-> <<Alt, Forward>>, sel |-> 1]
OpIndex == 1
OpPrefix == <<100, 200>>

\* the data of a request of each operator
RequestData(kind) ==
    CASE kind = "count" -> {<<OpPrefix, c, 0>> : c \in {FirstCount, 1}}
      [] kind = "propose" -> {OpPrefix}
      [] kind = "validate" -> {<<OpPrefix, v>> : v \in Values}

\* what the body of the loop over a capability's requests gives to the
\* session for request q, reading the trace
OpAnswer(kind, q, trace) ==
    LET u == <<q.data, q.time, q.diff>>
    IN CASE kind = "count" -> CountOp({u}, OpExt, OpIndex, trace)
         [] kind = "propose" -> ProposeOp({u}, OpExt, trace)
         [] kind = "validate" -> ValidateOp({u}, OpExt, trace)

\* trace.advance_by(frontier) lets the trace move the time of an update to
\* any time that compares alike to every time in advance of the frontier:
\* here the later of the time and the frontier's element
AdvanceTime(t, F) ==
    LET f == CHOOSE x \in F : TRUE
    IN IF LessEqual(t, f) THEN f ELSE t

\* the stored updates after the trace merged the batches that
\* distinguish_since allows it to merge, under the advance_by frontier adv;
\* under the empty frontier no time is kept
Compacted(stored, adv, dist) ==
    LET fixed == {u \in stored : FrontierLessEqual(dist, u[2])}
        moving == IF adv = {} THEN {} ELSE stored \ fixed
        at(u) == IF u \in fixed THEN u[2] ELSE AdvanceTime(u[2], adv)
        keys == {<<u[1], at(u)>> : u \in fixed \cup moving}
        sum(k) == SumDiffs({u \in fixed \cup moving :
                               u[1] = k[1] /\ at(u) = k[2]})
    IN {u \in {<<k[1], k[2], sum(k)>> : k \in keys} : u[3] # 0}

\* the changes one batch of the arrangement can hold: times from the last
\* upper up to the new one, one change per fact and time; a retraction may
\* be of a fact the relation does not hold (more retractions than
\* insertions)
Batches(history, lower, upper) ==
    LET times == {t \in OpTimes : FrontierLessEqual(lower, t)
                                    /\ ~FrontierLessEqual(upper, t)}
        facts == {<<OpPrefix[OpExt.sel], v>> : v \in Values}
        updates == {<<d, t, diff>> : d \in facts, t \in times, diff \in {1, -1}}
    IN {b \in SUBSET updates :
          /\ Cardinality(b) + Cardinality(history) <= MaxUpdates
          /\ \A u, w \in b : u[1] = w[1] /\ u[2] = w[2] => u = w}

\* the lookup for request q finds a negative accumulated multiplicity: the
\* count of the key (count), of a value stored under the key (propose), of
\* the (key, value) pair (validate)
NegativeLookup(kind, q, trace) ==
    LET key == IF kind = "propose" THEN KeyOf(OpExt, q.data)
               ELSE KeyOf(OpExt, q.data[1])
    IN CASE kind = "count" ->
              CountHasKey(trace, key) /\ CountSum(trace, key, q.time) < 0
         [] kind = "propose" ->
              \E v \in ProposeVals(trace, key) :
                 Accum(trace, <<key, v>>, q.time) < 0
         [] kind = "validate" ->
              /\ ValidateHasKey(trace, key, q.data[2])
              /\ Accum(trace, <<key, q.data[2]>>, q.time) < 0

\* u is a row of the operator's output collection for request q
IsRow(kind, q, u) ==
    /\ u[2] = q.time
    /\ u[3] = q.diff
    /\ CASE kind = "count" -> u[1][1] = q.data[1]
         [] kind = "propose" -> u[1][1] = q.data
         [] kind = "validate" -> u[1] = q.data

InitOp ==
    /\ opKind \in {"count", "propose", "validate"}
    /\ idxHistory = {}
    /\ idxStored = {}
    /\ idxUpper = {MinTime}
    /\ batchPending = FALSE
    /\ frontier2 = {MinTime}
    /\ frontier1 = {MinTime}
    /\ inbox = {}
    /\ stash = {}
    /\ traceHeld = TRUE
    /\ advanceFrontier = {MinTime}
    /\ distinguishFrontier = {MinTime}
    /\ answers = {}
    /\ IdleI
    /\ IdleH
    /\ IdleE
    /\ IdleF

\* the arrangement of the index seals a batch and sends it on input 2
IndexBatch(batch, upper) ==
    /\ Beyond(idxUpper, upper)
    /\ batch \in Batches(idxHistory, idxUpper, upper)
    /\ idxHistory' = idxHistory \cup batch
    /\ idxStored' = Concat(idxStored, batch)
    /\ idxUpper' = upper
    /\ batchPending' = TRUE
    /\ UNCHANGED <<frontier2, opKind, varsIn1, varsOp, varsI, varsH, varsE, varsF>>

\* the operator learns how far input 2 has advanced
Progress2 ==
    /\ frontier2 # idxUpper
    /\ frontier2' = idxUpper
    /\ UNCHANGED <<idxHistory, idxStored, idxUpper, batchPending, opKind,
                   varsIn1, varsOp, varsI, varsH, varsE, varsF>>

\* a request arrives on input 1, under a capability of its input frontier
Request(data, cap, time) ==
    /\ Cardinality(inbox) + Cardinality(stash) + Cardinality(answers) < MaxReq
    /\ FrontierLessEqual(frontier1, cap)
    /\ LessEqual(cap, time)
    /\ inbox' = inbox \cup
         {[id |-> Cardinality(inbox) + Cardinality(stash)
                    + Cardinality(answers) + 1,
           cap |-> cap, data |-> data, time |-> time, diff |-> 1]}
    /\ UNCHANGED <<frontier1, opKind, varsIdx, varsOp, varsI, varsH, varsE, varsF>>

\* input 1 advances, or closes: its frontier stays behind the capabilities
\* of the requests the operator has not drained yet
Progress1(F) ==
    /\ Beyond(frontier1, F)
    /\ \A q \in inbox : FrontierLessEqual(F, q.cap)
    /\ frontier1' = F
    /\ UNCHANGED <<inbox, opKind, varsIdx, varsOp, varsI, varsH, varsE, varsF>>

\* the trace merges batches, under the frontiers of its only handle
Merge ==
    /\ traceHeld
    /\ idxStored' = Compacted(idxStored, advanceFrontier, distinguishFrontier)
    /\ idxStored' # idxStored
    /\ UNCHANGED <<idxHistory, idxUpper, batchPending, frontier2, opKind,
                   varsIn1, varsOp, varsI, varsH, varsE, varsF>>

\* a test of the frontier of input 1 in place of that of input 2
ReadyOnInput1(q) ==
    /\ ~FrontierLessEqual(frontier1, q.cap)
    /\ ~FrontierLessEqual(frontier1, q.time)

\* !input2.frontier.less_equal(capability.time()) and
\* !input2.frontier.less_equal(time)
Ready(q) ==
    /\ ~FrontierLessEqual(frontier2, q.cap)
    /\ ~FrontierLessEqual(frontier2, q.time)

\* a retain that keeps the answered requests too
RetainAll(stashed, answered) == stashed

\* *diff = 0 for each answered request, then
\* prefixes.retain(|ptd| ptd.2 != 0) and
\* stash.retain(|_,prefixes| !prefixes.is_empty())
Retain(stashed, answered) == stashed \ answered

\* a release test that never holds
ReleaseNever(F, kept) == FALSE

\* a release test that ignores the stash
ReleaseOnClose(F, kept) == F = {}

\* if input1.frontier().is_empty() && stash.is_empty()
ReleaseTest(F, kept) == F = {} /\ kept = {}

\* one run of the operator's closure
Activate ==
    LET stashed == stash \cup inbox
        answered == IF traceHeld THEN {q \in stashed : Ready(q)} ELSE {}
        kept == Retain(stashed, answered)
    IN /\ inbox' = {}
       /\ batchPending' = FALSE
       /\ distinguishFrontier' =
            IF traceHeld /\ batchPending THEN idxUpper ELSE distinguishFrontier
       /\ answers' = answers \cup
            {[req |-> q, upper |-> idxUpper,
              negative |-> NegativeLookup(opKind, q, idxStored),
              emitted |-> OpAnswer(opKind, q, idxStored)] : q \in answered}
       /\ stash' = kept
       /\ advanceFrontier' = IF traceHeld THEN frontier1 ELSE advanceFrontier
       /\ traceHeld' = (traceHeld /\ ~ReleaseTest(frontier1, kept))
       /\ UNCHANGED <<idxHistory, idxStored, idxUpper, frontier2, frontier1,
                      opKind, varsI, varsH, varsE, varsF>>

NextOp ==
    \/ \E upper \in Frontiers :
         \E batch \in Batches(idxHistory, idxUpper, upper) :
            IndexBatch(batch, upper)
    \/ Progress2
    \/ \E data \in RequestData(opKind), cap \in OpTimes, time \in OpTimes :
         Request(data, cap, time)
    \/ \E F \in Frontiers : Progress1(F)
    \/ Merge
    \/ Activate

SpecOp == InitOp /\ [][NextOp]_vars

\* no answer was given while the index could still change at a time
\* less_equal to the time of the request
NoEarlyAnswer ==
    \A a \in answers : ~FrontierLessEqual(a.upper, a.req.time)

\* C10: no operator answers a request at time t while the change stream of
\* the index can still deliver an update at a time less than or equal to t,
\* and so what it emits for the request is what the changes of the index at
\* the times t dominates give.
C10_OrderingGuarantee ==
    /\ NoEarlyAnswer
    /\ \A a \in answers : a.emitted = OpAnswer(opKind, a.req, idxHistory)

\* C11: when the lookup for a request finds a negative accumulated
\* multiplicity the operator reports it: the request is not dropped without
\* output, and what is given for it is not only rows of the output
\* collection, as for a positive multiplicity.
C11_NegativeReported ==
    \A a \in answers :
        a.negative =>
            /\ a.emitted # {}
            /\ \E u \in a.emitted : ~IsRow(opKind, a.req, u)

\* C22: a buffered request at time t is answered only on an activation
\* where t is strictly below the frontier of the index change stream
\* (input 2): no change of the index at a time less than or equal to t can
\* still arrive.
C22_AnsweredBelowIndexFrontier ==
    [][\A a \in answers' \ answers :
          /\ ~FrontierLessEqual(frontier2, a.req.cap)
          /\ ~FrontierLessEqual(frontier2, a.req.time)]_vars

\* C22 as stated: a buffered request at time t is answered only on an
\* activation where t is strictly below the frontier of the request input
\* (input 1), so that no request at a time less than or equal to t can still
\* arrive.
C22_AnsweredBelowRequestFrontier ==
    [][\A a \in answers' \ answers :
          ~FrontierLessEqual(frontier1, a.req.time)]_vars

\* one request was answered, below the frontier of input 2, and another is
\* still buffered, its time not below that frontier
C22_Witness ==
    /\ \E a \in answers : ~FrontierLessEqual(frontier2, a.req.time)
    /\ \E q \in stash : FrontierLessEqual(frontier2, q.time)

\* the requests received so far are numbered 1, 2, ..: each of them is in
\* exactly one of the input buffer, the stash and the answered requests, and
\* has at most one answer
EachRequestOnce ==
    LET received == Cardinality(inbox) + Cardinality(stash)
                      + Cardinality(answers)
        buffered == {q.id : q \in inbox \cup stash}
        looked == {a.req.id : a \in answers}
    IN /\ buffered \cup looked = 1..received
       /\ buffered \cap looked = {}
       /\ Cardinality(buffered) = Cardinality(inbox) + Cardinality(stash)
       /\ \A a, b \in answers : a.req.id = b.req.id => a = b
       /\ stash # {} => traceHeld

\* a request answered by a step was buffered before the step and is not
\* after it, and an activation leaves no request buffered whose time is
\* complete
AnsweredWhenComplete ==
    /\ \A a \in answers' \ answers :
          /\ a.req \in stash \cup inbox
          /\ a.req \notin stash' \cup inbox'
    /\ \A q \in (stash \cup inbox) \ {a.req : a \in answers'} :
          q \in stash' \cup inbox'
    /\ Activate => \A q \in stash' \cup inbox' :
                       FrontierLessEqual(frontier2', q.time)

\* C23: every request an operator receives is looked up exactly once, on
\* the first activation at which its time is complete; until then it stays
\* buffered, the activation that answers it removes it from the buffer, and
\* it is never answered twice nor lost.
C23_ExactlyOnce == []EachRequestOnce /\ [][AnsweredWhenComplete]_vars

\* two requests were received: one is answered and no longer buffered, the
\* other is stashed, its time not yet complete
C23_Witness ==
    /\ \E a \in answers : a.req \notin stash \cup inbox
    /\ \E q \in stash : ~Ready(q)
    /\ inbox = {}

\* the frontier given to advance_by has not passed the time of a buffered
\* request
AdvanceBehindBuffer ==
    traceHeld =>
        \A q \in stash \cup inbox : FrontierLessEqual(advanceFrontier, q.time)

\* what was given for each answered request is what the uncompacted history
\* of the index gives for it
AnswersAsUncompacted ==
    \A a \in answers : a.emitted = OpAnswer(opKind, a.req, idxHistory)

\* C24: the frontier an operator gives to advance_by never passes the time
\* of a request that is still buffered, so the lookup of every request
\* returns what it returns on the uncompacted history of the index.
C24_CompactionSafety == AdvanceBehindBuffer /\ AnswersAsUncompacted

\* the operator is scheduled whenever an input or a frontier has changed:
\* an activation that changes its state is not put off forever
SpecOpLive == InitOp /\ [][NextOp]_vars /\ WF_vars(Activate)

\* input 1 is closed and the frontier of input 2 has passed the time of
\* every buffered request
ClosedAndPassed ==
    /\ frontier1 = {}
    /\ \A q \in stash \cup inbox : ~FrontierLessEqual(frontier2, q.time)

\* nothing is buffered and the trace handle is dropped
Released == stash = {} /\ inbox = {} /\ ~traceHeld

\* C25: once the request input is closed and the frontier of the index
\* change stream has passed every buffered time, the operator eventually
\* has answered every buffered request, has an empty buffer and has dropped
\* its trace handle.
C25_Termination == ClosedAndPassed ~> Released

\* the operator answered a request and was released
C25_Witness == Released /\ answers # {} /\ frontier1 = {}

\* an operator without its trace handle has no buffered request, and its
\* request input is closed
NothingLeftBehind ==
    ~traceHeld => stash = {} /\ inbox = {} /\ frontier1 = {}

\* the handle is dropped only by a step that finds input 1 closed and leaves
\* the buffer empty, and a dropped handle stays dropped
DroppedWhenDrained ==
    /\ (traceHeld /\ ~traceHeld') =>
          frontier1 = {} /\ stash' = {} /\ inbox' = {}
    /\ ~traceHeld => ~traceHeld'

\* C28: an operator drops its trace handle only on an activation where the
\* frontier of the request input is empty and the request buffer is empty;
\* a dropped handle stays dropped, and no request is ever left in the buffer
\* of an operator whose handle is dropped.
C28_ReleaseSafety == []NothingLeftBehind /\ [][DroppedWhenDrained]_vars

\* the operator dropped its handle after it had answered as many requests
\* as it can receive
C28_Witness == ~traceHeld /\ Cardinality(answers) = MaxReq

----------------------------------------------------------------------------
(* Filter::implement: a plan stage that keeps the tuples of its source     *)
(* relation on which a binary predicate holds.                             *)

lt(a, b) == a < b
lte(a, b) == a <= b
gt(a, b) == a > b
gte(a, b) == a >= b
eq(a, b) == a = b
neq(a, b) == a # b

Predicates == {"LT", "GT", "LTE", "GTE", "EQ", "NEQ"}

\* let binary_predicate = match self.predicate { .. }
BinaryPredicate(predicate, a, b) ==
    CASE predicate = "LT" -> lt(a, b)
      [] predicate = "LTE" -> lte(a, b)
      [] predicate = "GT" -> gt(a, b)
      [] predicate = "GTE" -> gte(a, b)
      [] predicate = "EQ" -> eq(a, b)
      [] predicate = "NEQ" -> neq(a, b)

SymbolNotFound == "Symbol not found."

\* rel.symbols().iter().position(|&v| *sym == v), 0-based
Position(symbols, sym) ==
    CHOOSE i \in 0..(Len(symbols) - 1) :
        /\ symbols[i + 1] = sym
        /\ \A j \in 0..(i - 1) : symbols[j + 1] # sym

\* the constant is compared as the second argument wherever it is declared
FilterTestConstantLast(predicate, constants, key_offsets, tuple) ==
    IF 0 \in DOMAIN constants
    THEN BinaryPredicate(predicate, tuple[key_offsets[1] + 1], constants[0])
    ELSE IF 1 \in DOMAIN constants
    THEN BinaryPredicate(predicate, tuple[key_offsets[1] + 1], constants[1])
    ELSE BinaryPredicate(predicate, tuple[key_offsets[1] + 1],
                         tuple[key_offsets[2] + 1])

\* the closure given to filter, by the constants of the stage
FilterTest(predicate, constants, key_offsets, tuple) ==
    IF 0 \in DOMAIN constants
    THEN BinaryPredicate(predicate, constants[0], tuple[key_offsets[1] + 1])
    ELSE IF 1 \in DOMAIN constants
    THEN BinaryPredicate(predicate, tuple[key_offsets[1] + 1], constants[1])
    ELSE BinaryPredicate(predicate, tuple[key_offsets[1] + 1],
                         tuple[key_offsets[2] + 1])

\* Filter::implement on the relation its plan implements
FilterImplement(symbols, rows, variables, predicate, constants) ==
    IF \E i \in 1..Len(variables) :
          \A j \in 1..Len(symbols) : symbols[j] # variables[i]
    THEN [panic |-> SymbolNotFound, symbols |-> <<>>, tuples |-> {}]
    ELSE LET key_offsets ==
                [i \in 1..Len(variables) |-> Position(symbols, variables[i])]
         IN [panic |-> "",
             symbols |-> symbols,
             tuples |-> {u \in rows :
                           FilterTest(predicate, constants, key_offsets, u[1])}]

----------------------------------------------------------------------------
(* SpecFilter: Filter::implement on any two-column relation, with one      *)
(* constant and one symbol, or with two symbols.                           *)

\* the number of values a column or a constant takes
NumFilterVals == 3

\* the number of updates of the source relation
MaxRows == 2

FilterValues == 1..NumFilterVals

FilterRows ==
    {<<t, 1, d>> : t \in FilterValues \X FilterValues, d \in {-1, 1, 2}}

InitFilter ==
    /\ fltSymbols = <<1, 2>>
    /\ fltTuples \in {r \in SUBSET FilterRows : Cardinality(r) <= MaxRows}
    /\ fltPredicate \in Predicates
    /\ \/ /\ fltConstants \in UNION {[{pos} -> FilterValues] : pos \in {0, 1}}
          /\ fltVariables \in {<<sym>> : sym \in Syms}
       \/ /\ fltConstants = <<>>
          /\ fltVariables \in {<<1, 2>>, <<2, 1>>}
    /\ fltStatus = "none"
    /\ fltResult = {}
    /\ IdleI
    /\ IdleH
    /\ IdleE
    /\ IdleO

CallFilter ==
    /\ fltStatus = "none"
    /\ LET rel == FilterImplement(fltSymbols, fltTuples, fltVariables,
                                  fltPredicate, fltConstants)
       IN IF rel.panic # ""
          THEN fltStatus' = "panicked" /\ fltResult' = {}
          ELSE fltStatus' = "done" /\ fltResult' = {rel}
    /\ UNCHANGED <<fltSymbols, fltTuples, fltVariables, fltPredicate,
                   fltConstants, varsI, varsH, varsE, varsO>>

NextFilter == CallFilter

SpecFilter == InitFilter /\ [][NextFilter]_vars

\* the predicate as declared, on argument 0 and argument 1
Declared(predicate, arg0, arg1) ==
    CASE predicate = "LT" -> arg0 < arg1
      [] predicate = "LTE" -> arg0 < arg1 \/ arg0 = arg1
      [] predicate = "GT" -> arg1 < arg0
      [] predicate = "GTE" -> arg1 < arg0 \/ arg0 = arg1
      [] predicate = "EQ" -> arg0 = arg1
      [] predicate = "NEQ" -> arg0 < arg1 \/ arg1 < arg0

\* the stage has one constant and one symbol that the source binds
PointFilter ==
    /\ Cardinality(DOMAIN fltConstants) = 1
    /\ \E j \in 1..Len(fltSymbols) : fltSymbols[j] = fltVariables[1]

\* argument i of the predicate for a tuple: the constant declared at i, or
\* the column of the symbol
Argument(i, tuple) ==
    IF i \in DOMAIN fltConstants THEN fltConstants[i]
    ELSE tuple[CHOOSE j \in 1..Len(fltSymbols) : fltSymbols[j] = fltVariables[1]]

\* C13: a filter on one constant and one symbol returns exactly the updates
\* of the source whose tuple satisfies the predicate with the constant and
\* the symbol's column in their declared argument positions, each with its
\* tuple, time and multiplicity unchanged, under the source's symbol list.
C13_PointFilter ==
    (fltStatus # "none" /\ PointFilter) =>
        /\ fltStatus = "done"
        /\ \A rel \in fltResult :
              /\ rel.symbols = fltSymbols
              /\ rel.tuples =
                    {u \in fltTuples :
                        Declared(fltPredicate, Argument(0, u[1]),
                                 Argument(1, u[1]))}

\* a filter with the constant declared first and an asymmetric predicate,
\* that kept one update and dropped another
C13_Witness ==
    /\ fltStatus = "done"
    /\ PointFilter
    /\ 0 \in DOMAIN fltConstants
    /\ fltPredicate \in {"LT", "GTE"}
    /\ \E rel \in fltResult : rel.tuples # {} /\ rel.tuples # fltTuples
    /\ \E u \in fltTuples : u[3] = 2

============================================================================
